---- MODULE Spec2Model ----
(***************************************************************************)
(* Model of opensearch_py_ml/ml/ltr.py: QueryFeatureExtractor,             *)
(* LTRModelConfig and FeatureLogger, together with the part of the         *)
(* OpenSearch client and cluster that the FeatureLogger talks to.          *)
(*                                                                         *)
(* Python values are modelled as follows.  A list is a sequence, None is   *)
(* a record with none = TRUE, a dict with string keys is a record or a     *)
(* function, a float is the integer of its tenths (0.5 is 5, 1.2 is 12).   *)
(* An exception is the name of its class.                                  *)
(***************************************************************************)
EXTENDS Integers, Sequences, FiniteSets, TLC

VARIABLES
    built,        \* QueryFeatureExtractor objects built so far, with their arguments
    wire,         \* what the last to_dict call returned
    ltrstore,     \* cluster: how many indices named ".ltrstore" exist
    logger,       \* the FeatureLogger object: alive, index_name, ltr_config
    calls,        \* the client calls the current FeatureLogger issued, in order
    lastOp,       \* the operation that ran last and what it was given
    raised,       \* the exception the last operation let through to its caller
    result        \* what the last extract_features call returned

vars == <<built, wire, ltrstore, logger, calls, lastOp, raised, result>>

(***************************************************************************)
(* Bounds of the model.                                                    *)
(***************************************************************************)
MaxExtractors == 2
MaxHits == 2
MaxCalls == 3

(***************************************************************************)
(* Python helpers.                                                         *)
(***************************************************************************)
None == [none |-> TRUE, v |-> <<>>]

Some(v) == [none |-> FALSE, v |-> v]

\* bool(x) of an Optional[List]: None and the empty list are falsy
Truthy(x) == ~x.none /\ Len(x.v) > 0

Abs(n) == IF n < 0 THEN -n ELSE n

EmptyDict == [k \in {} |-> <<>>]

Range(s) == {s[i] : i \in DOMAIN s}

(***************************************************************************)
(* The exception classes of opensearchpy that the code names or that the   *)
(* client raises, and Python's built-in ones that response parsing can     *)
(* raise.                                                                  *)
(***************************************************************************)
Parent(cls) ==
    CASE cls \in {"ConnectionTimeout", "SSLError"} -> "ConnectionError"
      [] cls \in {"ConnectionError", "RequestError", "NotFoundError"} -> "TransportError"
      [] cls = "TransportError" -> "OpenSearchException"
      [] OTHER -> "Exception"

RECURSIVE IsInstance(_, _)
IsInstance(exc, cls) ==
    IF exc = cls THEN TRUE
    ELSE IF exc = "Exception" THEN FALSE
    ELSE IsInstance(Parent(exc), cls)

(***************************************************************************)
(* QueryFeatureExtractor                                                   *)
(***************************************************************************)
FeatureNames == {"title_match", "body_match"}

Queries == {[match |-> "title"], [match |-> "body"]}

ParamsArgs == {None, Some(<<>>), Some(<<"query">>), Some(<<"keywords", "category">>)}

\* __init__: self.params = params or ["query"]
QueryFeatureExtractor(feature_name, query, params) ==
    [feature_name |-> feature_name,
     params       |-> IF Truthy(params) THEN params.v ELSE <<"query">>,
     query        |-> query]

QueryFeatureExtractor_to_dict(self) ==
    [name              |-> self.feature_name,
     params            |-> self.params,
     template_language |-> "mustache",
     template          |-> self.query]

(***************************************************************************)
(* LTRModelConfig                                                          *)
(***************************************************************************)
HashBits == 4

\* the seed of str hashes: fixed within a process, different from one to the next
HashSeed == 1

\* hash(str)
StrHash(s) ==
    (CASE s = "title_match" -> 4 [] s = "body_match" -> 6 [] OTHER -> 3) + 7 * HashSeed

\* hash(tuple): a signed value of HashBits bits folded over the elements
RECURSIVE TupleHash(_)
TupleHash(names) ==
    IF names = <<>> THEN 5
    ELSE LET h == (TupleHash(SubSeq(names, 1, Len(names) - 1)) * 3
                   + StrHash(names[Len(names)])) % (2 ^ HashBits)
         IN  IF h >= 2 ^ (HashBits - 1) THEN h - 2 ^ HashBits ELSE h

LTRModelConfig(feature_extractors) ==
    LET names == [i \in 1..Len(feature_extractors) |-> feature_extractors[i].feature_name]
    IN  [feature_extractors |-> feature_extractors,
         featureset_name    |-> [prefix |-> "featureset_", digits |-> Abs(TupleHash(names))],
         feature_names      |-> names]

LTRModelConfig_to_dict(self) ==
    [featureset |->
        [name     |-> self.featureset_name,
         features |-> [i \in 1..Len(self.feature_extractors) |->
                          QueryFeatureExtractor_to_dict(self.feature_extractors[i])]]]

(***************************************************************************)
(* The OpenSearch client.  The cluster, or the network on the way to it,   *)
(* answers every call with one of Replies; the client turns the answer     *)
(* into a return or into an exception, leaving out the HTTP statuses the   *)
(* caller asked it to ignore.                                              *)
(***************************************************************************)
Replies == {"200", "400", "404", "refused", "timeout"}

ClientRaises(reply, ignore) ==
    CASE reply = "200"     -> "none"
      [] reply = "400"     -> IF 400 \in ignore THEN "none" ELSE "RequestError"
      [] reply = "404"     -> IF 404 \in ignore THEN "none" ELSE "NotFoundError"
      [] reply = "refused" -> "ConnectionError"
      [] reply = "timeout" -> "ConnectionTimeout"

\* What the cluster can answer to PUT /.ltrstore: it creates the index when there
\* is none and answers 400 (resource already exists) when there is one.
CreateReplies(count) ==
    (IF count = 0 THEN {"200"} ELSE {"400"}) \cup {"404", "refused", "timeout"}

ClusterCreate(count, reply) == IF reply = "200" THEN count + 1 ELSE count

NoName == [prefix |-> "", digits |-> 0]

Call(api, index, path, body, ignore, exc) ==
    [api |-> api, index |-> index, path |-> path, body |-> body,
     ignore |-> ignore, exc |-> exc]

(***************************************************************************)
(* FeatureLogger.  The methods are operators on a world w: the cluster's   *)
(* .ltrstore count, the calls issued so far and the exception on its way   *)
(* to the caller ("none" when the method returned).                        *)
(***************************************************************************)
IndexNames == {"products"}

\* the handler of _register_featureset copied into _initialize_plugin
InitializePluginCatchesRequestError(exc) == IsInstance(exc, "RequestError")

\* line 112: except opensearchpy.OpenSearchException
InitializePluginCatches(exc) == IsInstance(exc, "OpenSearchException")

initialize_plugin(self, w, reply) ==
    LET ignore == {400}
        exc    == ClientRaises(reply, ignore)
    IN  [ltrstore |-> ClusterCreate(w.ltrstore, reply),
         calls    |-> Append(w.calls, Call("indices.create", ".ltrstore", NoName,
                                           EmptyDict, ignore, exc)),
         raised   |-> IF exc = "none" \/ InitializePluginCatches(exc) THEN "none" ELSE exc]

\* line 122: except opensearchpy.RequestError
RegisterFeaturesetCatches(exc) == IsInstance(exc, "RequestError")

register_featureset(self, w, reply) ==
    LET exc == ClientRaises(reply, {})
    IN  [ltrstore |-> w.ltrstore,
         calls    |-> Append(w.calls, Call("transport.perform_request", "",
                                           self.ltr_config.featureset_name,
                                           LTRModelConfig_to_dict(self.ltr_config), {}, exc)),
         raised   |-> IF exc = "none" \/ RegisterFeaturesetCatches(exc) THEN "none" ELSE exc]

\* a constructor that registers the feature set only when the index call went well
FeatureLoggerSkipsRegistration(os_index_name, ltr_config, w, reply1, reply2) ==
    LET self == [alive |-> TRUE, index_name |-> os_index_name, ltr_config |-> ltr_config]
        w1   == initialize_plugin(self, w, reply1)
        w2   == IF w1.raised = "none" /\ w1.calls[Len(w1.calls)].exc = "none"
                THEN register_featureset(self, w1, reply2) ELSE w1
    IN  [self |-> [self EXCEPT !.alive = (w2.raised = "none")], w |-> w2]

\* __init__: the two steps in order; an exception out of the first ends construction
FeatureLogger(os_index_name, ltr_config, w, reply1, reply2) ==
    LET self == [alive |-> TRUE, index_name |-> os_index_name, ltr_config |-> ltr_config]
        w1   == initialize_plugin(self, w, reply1)
        w2   == IF w1.raised = "none" THEN register_featureset(self, w1, reply2) ELSE w1
    IN  [self |-> [self EXCEPT !.alive = (w2.raised = "none")], w |-> w2]

(***************************************************************************)
(* Search responses.  A hit is {"_id": id, "fields": ...}; its fields key  *)
(* is absent, null or a dict; the dict's _ltrlog key is absent, null, a    *)
(* list, a non-empty dict or a non-zero number; a list element is a dict   *)
(* (with or without the key log_entry1), a list or a number.               *)
(***************************************************************************)
\* line 168: the key response parsing reads
LogEntryName == "log_entry1"

\* a list element: for a dict, entries maps its keys to feature-value lists
Elem(kind, entries) == [kind |-> kind, entries |-> entries]

Ltrlog(kind, elems) == [kind |-> kind, elems |-> elems]

Fields(kind, ltrlog) == [kind |-> kind, ltrlog |-> ltrlog]

\* The LTR plugin logs a hit's feature values under the name the query's log
\* spec asked for.
FieldsShapes(log_name) ==
    { Fields("absent", Ltrlog("absent", <<>>)),
      Fields("null",   Ltrlog("absent", <<>>)),
      Fields("dict",   Ltrlog("absent", <<>>)),
      Fields("dict",   Ltrlog("list", <<>>)),
      Fields("dict",   Ltrlog("list", <<Elem("list", EmptyDict)>>)),
      Fields("dict",   Ltrlog("list", <<Elem("dict", EmptyDict)>>)),
      Fields("dict",   Ltrlog("list", <<Elem("dict", log_name :> <<5, 12>>)>>)),
      Fields("dict",   Ltrlog("list", <<Elem("dict", log_name :> <<1, 0>>)>>)),
      Fields("dict",   Ltrlog("dict", <<>>)) }

\* the subsequences of s with at most n elements
RECURSIVE SubSeqsUpTo(_, _)
SubSeqsUpTo(s, n) ==
    IF s = <<>> \/ n = 0 THEN {<<>>}
    ELSE SubSeqsUpTo(Tail(s), n) \cup {<<Head(s)>> \o t : t \in SubSeqsUpTo(Tail(s), n - 1)}

\* The responses the cluster can give to a search restricted to doc_ids: at most
\* MaxHits hits, each for one of the documents asked for, no document hit twice,
\* in the order of doc_ids.
Responses(doc_ids, log_name) ==
    UNION { {[hits |-> [i \in DOMAIN ids |-> [id |-> ids[i], fields |-> f[i]]]] :
                f \in [DOMAIN ids -> FieldsShapes(log_name)]} :
            ids \in SubSeqsUpTo(doc_ids, MaxHits) }

NoResponse == [hits |-> <<>>]

\* bool(x) of a JSON value
PyTruthy(x) ==
    CASE x.kind = "list" -> Len(x.elems) > 0
      [] x.kind \in {"dict", "num"} -> TRUE
      [] OTHER -> FALSE

\* lines 165-168 for one hit: the exception it raises, whether it sets
\* feature_values[doc_id], and to what
ParseHit(hit) ==
    LET skip  == [exc |-> "none", set |-> FALSE, value |-> <<>>]
        fails(e) == [exc |-> e, set |-> FALSE, value |-> <<>>]
        \* hit.get("fields", {})
        fields  == IF hit.fields.kind = "absent"
                   THEN Fields("dict", Ltrlog("absent", <<>>)) ELSE hit.fields
        \* .get("_ltrlog", [])
        ltr_log == IF fields.ltrlog.kind = "absent"
                   THEN Ltrlog("list", <<>>) ELSE fields.ltrlog
    IN  IF fields.kind # "dict" THEN fails("AttributeError")
        ELSE IF ~PyTruthy(ltr_log) THEN skip
        ELSE IF ltr_log.kind = "dict" THEN fails("KeyError")
        ELSE IF ltr_log.kind = "num" THEN fails("TypeError")
        ELSE IF ltr_log.elems[1].kind # "dict" THEN skip
        ELSE [exc |-> "none", set |-> TRUE,
              \* ltr_log[0].get("log_entry1", [])
              value |-> IF LogEntryName \in DOMAIN ltr_log.elems[1].entries
                        THEN ltr_log.elems[1].entries[LogEntryName] ELSE <<>>]

\* lines 163-170: the loop over the hits, from the feature_values built so far
RECURSIVE ParseHits(_, _)
ParseHits(hits, feature_values) ==
    IF hits = <<>> THEN [exc |-> "none", value |-> feature_values]
    ELSE LET p == ParseHit(Head(hits))
         IN  IF p.exc # "none" THEN [exc |-> p.exc, value |-> EmptyDict]
             ELSE ParseHits(Tail(hits),
                            IF p.set
                            THEN [k \in DOMAIN feature_values \cup {Head(hits).id} |->
                                     IF k = Head(hits).id THEN p.value ELSE feature_values[k]]
                            ELSE feature_values)

QueryParams == {[query |-> "red shoes"]}

DocIdLists == {<<"1", "2">>}

\* a query body that names the feature set by the hash without abs()
SearchBodySignedName(self, query_params, doc_ids) ==
    [source |-> [includes |-> <<>>],
     query  |-> [bool |-> [filter |->
                    <<[terms |-> [id |-> doc_ids]],
                      [sltr  |-> [name       |-> "logged_featureset",
                                  featureset |-> [prefix |-> "featureset_",
                                                  digits |-> TupleHash(self.ltr_config.feature_names)],
                                  params     |-> query_params]]>>]],
     ext    |-> [ltr_log |-> [log_specs |-> [name        |-> "log_entry1",
                                              named_query |-> "logged_featureset"]]]]

\* lines 128-152
SearchBody(self, query_params, doc_ids) ==
    [source |-> [includes |-> <<>>],
     query  |-> [bool |-> [filter |->
                    <<[terms |-> [id |-> doc_ids]],
                      [sltr  |-> [name       |-> "logged_featureset",
                                  featureset |-> self.ltr_config.featureset_name,
                                  params     |-> query_params]]>>]],
     ext    |-> [ltr_log |-> [log_specs |-> [name        |-> "log_entry1",
                                              named_query |-> "logged_featureset"]]]]

\* only the first of the two handlers
ExtractFeaturesCatchesConnectionOnly(exc) == IsInstance(exc, "ConnectionError")

\* lines 156-161: except ConnectionError, except RequestError
ExtractFeaturesCatches(exc) ==
    IsInstance(exc, "ConnectionError") \/ IsInstance(exc, "RequestError")

\* a search that is tried once more when it failed
SearchCallsRetrying(self, body, exc) ==
    IF exc = "none"
    THEN <<Call("search", self.index_name, NoName, body, {}, exc)>>
    ELSE <<Call("search", self.index_name, NoName, body, {}, exc),
           Call("search", self.index_name, NoName, body, {}, exc)>>

\* line 155: the search calls issued, with the exception of the last
SearchCalls(self, body, exc) ==
    <<Call("search", self.index_name, NoName, body, {}, exc)>>

extract_features(self, w, query_params, doc_ids, reply, response) ==
    LET body   == SearchBody(self, query_params, doc_ids)
        exc    == ClientRaises(reply, {})
        issued == w.calls \o SearchCalls(self, body, exc)
        parsed == ParseHits(response.hits, EmptyDict)
    IN  IF exc # "none"
        THEN IF ExtractFeaturesCatches(exc)
             THEN [calls |-> issued, raised |-> "none", returned |-> TRUE, value |-> EmptyDict]
             ELSE [calls |-> issued, raised |-> exc, returned |-> FALSE, value |-> EmptyDict]
        ELSE [calls |-> issued, raised |-> parsed.exc,
              returned |-> parsed.exc = "none", value |-> parsed.value]

(***************************************************************************)
(* The state machine.                                                      *)
(***************************************************************************)
\* the feature extractor lists the FeatureLoggers are configured with
ExtractorLists ==
    { <<QueryFeatureExtractor("title_match", [match |-> "title"], None)>>,
      <<QueryFeatureExtractor("title_match", [match |-> "title"], None),
        QueryFeatureExtractor("body_match", [match |-> "body"], Some(<<"keywords", "category">>))>> }

NoWire == [op |-> "none", i |-> 0, name |-> NoName, features |-> <<>>]

NoOp == [op |-> "none", doc_ids |-> <<>>, response |-> NoResponse, count |-> 0]

NoResult == [returned |-> FALSE, value |-> EmptyDict]

Init ==
    /\ built = <<>>
    /\ wire = NoWire
    /\ ltrstore \in {0, 1}
    /\ logger = [alive |-> FALSE, index_name |-> "", ltr_config |-> LTRModelConfig(<<>>)]
    /\ calls = <<>>
    /\ lastOp = NoOp
    /\ raised = "none"
    /\ result = NoResult

\* QueryFeatureExtractor(feature_name, query, params)
BuildExtractor ==
    \E n \in FeatureNames, q \in Queries, p \in ParamsArgs :
        /\ Len(built) < MaxExtractors
        /\ built' = Append(built, [feature_name |-> n, query |-> q, params |-> p,
                                   obj |-> QueryFeatureExtractor(n, q, p)])
        /\ UNCHANGED <<wire, ltrstore, logger, calls, lastOp, raised, result>>

\* QueryFeatureExtractor.to_dict() of the i-th extractor built
ExtractorToDict ==
    \E i \in DOMAIN built :
        /\ wire' = [op |-> "to_dict", i |-> i, name |-> NoName,
                    features |-> <<QueryFeatureExtractor_to_dict(built[i].obj)>>]
        /\ UNCHANGED <<built, ltrstore, logger, calls, lastOp, raised, result>>

\* LTRModelConfig(the extractors built).to_dict()
ConfigToDict ==
    LET d == LTRModelConfig_to_dict(
                 LTRModelConfig([i \in DOMAIN built |-> built[i].obj]))
    IN  /\ wire' = [op |-> "config_to_dict", i |-> 0, name |-> d.featureset.name,
                    features |-> d.featureset.features]
        /\ UNCHANGED <<built, ltrstore, logger, calls, lastOp, raised, result>>

\* FeatureLogger(os_client, index_name, ltr_config)
NewFeatureLogger ==
    \E idx \in IndexNames, fes \in ExtractorLists,
       reply1 \in CreateReplies(ltrstore), reply2 \in Replies :
        LET made == FeatureLogger(idx, LTRModelConfig(fes),
                                  [ltrstore |-> ltrstore, calls |-> <<>>, raised |-> "none"],
                                  reply1, reply2)
        IN  /\ logger' = made.self
            /\ ltrstore' = made.w.ltrstore
            /\ calls' = made.w.calls
            /\ raised' = made.w.raised
            /\ lastOp' = [NoOp EXCEPT !.op = "FeatureLogger", !.count = ltrstore]
            /\ result' = NoResult
            /\ UNCHANGED <<built, wire>>

\* logger._initialize_plugin() called again on a constructed logger
CallInitializePlugin ==
    \E reply \in CreateReplies(ltrstore) :
        LET w == initialize_plugin(logger, [ltrstore |-> ltrstore, calls |-> calls,
                                            raised |-> "none"], reply)
        IN  /\ logger.alive
            /\ Len(calls) < MaxCalls
            /\ ltrstore' = w.ltrstore
            /\ calls' = w.calls
            /\ raised' = w.raised
            /\ lastOp' = [NoOp EXCEPT !.op = "initialize_plugin", !.count = ltrstore]
            /\ result' = NoResult
            /\ UNCHANGED <<built, wire, logger>>

\* logger.extract_features(query_params, doc_ids)
ExtractFeatures ==
    \E query_params \in QueryParams, doc_ids \in DocIdLists, reply \in Replies :
        \E response \in IF reply = "200"
                        THEN Responses(doc_ids,
                                       SearchBody(logger, query_params, doc_ids).ext.ltr_log.log_specs.name)
                        ELSE {NoResponse} :
            LET r == extract_features(logger, [ltrstore |-> ltrstore, calls |-> calls,
                                               raised |-> "none"],
                                      query_params, doc_ids, reply, response)
            IN  /\ logger.alive
                /\ Len(calls) < MaxCalls
                /\ calls' = r.calls
                /\ raised' = r.raised
                /\ result' = [returned |-> r.returned, value |-> r.value]
                /\ lastOp' = [op |-> "extract_features", doc_ids |-> doc_ids,
                              response |-> response, count |-> ltrstore]
                /\ UNCHANGED <<built, wire, ltrstore, logger>>

Next == NewFeatureLogger \/ CallInitializePlugin \/ ExtractFeatures

Spec == Init /\ [][Next]_vars

NextExtractors == BuildExtractor \/ ExtractorToDict \/ ConfigToDict

SpecExtractors == Init /\ [][NextExtractors]_vars

(***************************************************************************)
(* The claims.                                                             *)
(***************************************************************************)
LastCall == calls[Len(calls)]

Constructed == lastOp.op = "FeatureLogger"

Extracted == lastOp.op = "extract_features"

\* C1: constructing a FeatureLogger never raises, whatever failure the client
\* raises from the index-creation call or from the registration call, and the
\* object is returned usable.
C1_ConstructionNeverAborts ==
    Constructed => raised = "none" /\ logger.alive

\* C2: when the search call fails with a connectivity error or with a request
\* rejection, extract_features returns the empty mapping and does not raise.
C2_DegradeToEmpty ==
    Extracted /\ LastCall.exc \in {"ConnectionError", "ConnectionTimeout", "RequestError"}
        => /\ raised = "none"
           /\ result = [returned |-> TRUE, value |-> EmptyDict]

C2_Witness ==
    /\ Extracted
    /\ LastCall.api = "search"
    /\ LastCall.exc = "RequestError"
    /\ result.returned
    /\ result.value = EmptyDict

\* C3: extract_features never lets an error through to its caller: whatever the
\* search call raises or returns, it returns a mapping.
C3_ExtractNeverRaises ==
    Extracted => raised = "none" /\ result.returned

\* a hit carries a logged entry: its _ltrlog is a non-empty list whose first
\* element is a mapping that holds the log entry
CarriesLoggedEntry(hit) ==
    /\ hit.fields.kind = "dict"
    /\ hit.fields.ltrlog.kind = "list"
    /\ Len(hit.fields.ltrlog.elems) > 0
    /\ hit.fields.ltrlog.elems[1].kind = "dict"
    /\ LogEntryName \in DOMAIN hit.fields.ltrlog.elems[1].entries

\* C4: on a successful search the keys of the mapping returned are exactly the
\* ids of the hits that carry a logged entry, each with that hit's feature-value
\* list; a requested id with no hit is absent.
C4_KeysAreHitsWithEntry ==
    Extracted /\ LastCall.exc = "none" /\ result.returned
        => LET hits == lastOp.response.hits
               good == {i \in DOMAIN hits : CarriesLoggedEntry(hits[i])}
           IN  /\ DOMAIN result.value = {hits[i].id : i \in good}
               /\ \A i \in good :
                      result.value[hits[i].id] = hits[i].fields.ltrlog.elems[1].entries[LogEntryName]
               /\ \A id \in Range(lastOp.doc_ids) :
                      (\A i \in DOMAIN hits : hits[i].id # id) => id \notin DOMAIN result.value

\* the four ways a hit's logged entry is absent or malformed
NoLtrlogField(hit) ==
    hit.fields.kind = "absent" \/ (hit.fields.kind = "dict" /\ hit.fields.ltrlog.kind = "absent")

EmptyLtrlog(hit) ==
    hit.fields.kind = "dict" /\ hit.fields.ltrlog.kind = "list" /\ hit.fields.ltrlog.elems = <<>>

FirstNotMapping(hit) ==
    /\ hit.fields.kind = "dict"
    /\ hit.fields.ltrlog.kind = "list"
    /\ Len(hit.fields.ltrlog.elems) > 0
    /\ hit.fields.ltrlog.elems[1].kind # "dict"

FirstLacksLogEntry(hit) ==
    /\ hit.fields.kind = "dict"
    /\ hit.fields.ltrlog.kind = "list"
    /\ Len(hit.fields.ltrlog.elems) > 0
    /\ hit.fields.ltrlog.elems[1].kind = "dict"
    /\ LogEntryName \notin DOMAIN hit.fields.ltrlog.elems[1].entries

\* C5: a hit with no _ltrlog field, an empty _ltrlog, a first _ltrlog element
\* that is not a mapping, or a first element without log_entry1 is skipped: its
\* id is not a key of the mapping returned.
C5_MalformedHitsSkipped ==
    Extracted /\ result.returned
        => \A i \in DOMAIN lastOp.response.hits :
              LET hit == lastOp.response.hits[i]
              IN  (NoLtrlogField(hit) \/ EmptyLtrlog(hit) \/ FirstNotMapping(hit)
                       \/ FirstLacksLogEntry(hit))
                      => hit.id \notin DOMAIN result.value

\* C6: to_dict of an extractor returns the name, params and template given at
\* construction (the empty params list included), template_language "mustache",
\* and params ["query"] when params was omitted.
C6_ToDictEchoes ==
    wire.op = "to_dict"
        => LET given == built[wire.i]
               d     == wire.features[1]
           IN  /\ d.name = given.feature_name
               /\ d.template = given.query
               /\ d.template_language = "mustache"
               /\ d.params = IF given.params.none THEN <<"query">> ELSE given.params.v

\* C7: the index-ensure step, run by a constructor or directly, against a cluster
\* that already has the .ltrstore index does not raise and leaves the cluster with
\* exactly one such index.
C7_InitializeIdempotent ==
    lastOp.op \in {"FeatureLogger", "initialize_plugin"} /\ lastOp.count >= 1
        => /\ ltrstore = 1
           /\ lastOp.op = "initialize_plugin" => raised = "none"
           \* the constructor went on to the registration call
           /\ lastOp.op = "FeatureLogger" => Len(calls) = 2

C7_Witness ==
    /\ lastOp.op = "initialize_plugin"
    /\ lastOp.count = 1
    /\ Len(calls) = 3
    /\ calls[1].api = "indices.create" /\ calls[1].exc = "none"
    /\ calls[3].api = "indices.create" /\ calls[3].exc = "none"
    /\ raised = "none"
    /\ ltrstore = 1

\* C8: a call of extract_features issues exactly one search call, against the
\* logger's index, whether it succeeds or fails, and no other call.
C8_OneSearchPerExtract ==
    [][lastOp'.op = "extract_features"
          => \E c \in {calls'[Len(calls')]} :
                /\ calls' = Append(calls, c)
                /\ c.api = "search"
                /\ c.index = logger.index_name]_vars

C8_Witness ==
    /\ Extracted
    /\ Len(calls) = 3
    /\ calls[3].api = "search"
    /\ calls[3].exc = "ConnectionError"
    /\ calls[3].index = logger.index_name

\* C9: a construction issues the index call on .ltrstore first and, when that has
\* returned or its failure was caught, the registration call, exactly once, also
\* when index creation failed; every search call comes after both.
C9_InitializationOrder ==
    /\ Constructed =>
          /\ Len(calls) = 2
          /\ calls[1].api = "indices.create" /\ calls[1].index = ".ltrstore"
          /\ calls[2].api = "transport.perform_request"
    /\ \A i \in DOMAIN calls :
          calls[i].api = "search" =>
              /\ i > 2
              /\ calls[1].api = "indices.create"
              /\ calls[2].api = "transport.perform_request"
    /\ Cardinality({i \in DOMAIN calls : calls[i].api = "transport.perform_request"}) <= 1

C9_Witness ==
    /\ Constructed
    /\ Len(calls) = 2
    /\ calls[1].api = "indices.create" /\ calls[1].exc = "ConnectionError"
    /\ calls[2].api = "transport.perform_request" /\ calls[2].exc = "none"
    /\ logger.alive

\* C10: the feature-set name in the sltr clause of every query is the name in the
\* path and in the body of the logger's registration request; the query's log
\* spec names the sltr clause's named query and the log entry parsing reads.
C10_NamesConsistent ==
    \A i \in DOMAIN calls :
        calls[i].api = "search" =>
            LET sltr      == calls[i].body.query.bool.filter[2].sltr
                log_specs == calls[i].body.ext.ltr_log.log_specs
            IN  /\ calls[2].api = "transport.perform_request"
                /\ sltr.featureset = calls[2].path
                /\ sltr.featureset = calls[2].body.featureset.name
                /\ log_specs.named_query = sltr.name
                /\ log_specs.name = LogEntryName

C10_Witness ==
    /\ Extracted
    /\ Len(calls) = 3
    /\ calls[3].api = "search"
    /\ calls[3].exc = "none"
    /\ Len(logger.ltr_config.feature_names) = 2
    /\ Len(lastOp.response.hits) = 2

====
